---- MODULE Spec2Model ----
(***************************************************************************)
(* Two WebSocket servers of the repository:                                *)
(*                                                                         *)
(*   examples/axum.rs             fan-out chat: every connection publishes *)
(*                                its Text frames to one tokio broadcast   *)
(*                                channel and relays the channel to its    *)
(*                                peer (handle_socket, send_task,          *)
(*                                recv_task).                              *)
(*   examples/axum_read_write.rs  self-driven: a write task emits a        *)
(*                                numbered frame per timer tick, a read    *)
(*                                task consumes inbound frames.            *)
(*                                                                         *)
(* Each task is modelled at the granularity of its await points: a task    *)
(* only stops by returning or, once abort() was called on it, at an await. *)
(***************************************************************************)
EXTENDS Integers, Sequences, FiniteSets, TLC

\* ------------------------------------------------------------------ bounds

\* Connections accepted by the fan-out server during one run.
NumSessions == 2

\* broadcast::channel(100) in main; scaled down so that overflow is reachable.
Capacity == 3

\* Text frames the peers deliver to the fan-out server, over all connections.
MaxTexts == 2

\* Text frames a single peer delivers when it is the only connection of the run.
MaxSoloTexts == 5

\* Timer ticks the self-driven write task is followed for.
MaxTicks == 21

Sessions == 1..NumSessions

\* Text payloads a peer may send.
Payloads == {"hello", "bye"}

\* Values of Local::now().format("%H:%M:%S") the write task may observe, in the
\* order the clock shows them.
Times == <<"12:00:00", "12:00:02">>

\* if counter % 10 == 0
MilestonePeriod == 10

\* ------------------------------------------------------------------ frames

NoMsg == <<>>

TextFrame(body) == [type |-> "Text", body |-> body]

\* What receiver.next().await can resolve to: Some(Ok(frame)), Some(Err(_)), None.
TextInputs == {[kind |-> "Text", text |-> p] : p \in Payloads}

OtherInputs == {[kind |-> k, text |-> ""] : k \in {"Binary", "Ping", "Pong"}}

EndInputs == {[kind |-> k, text |-> ""] : k \in {"Close", "Err", "None"}}

Inputs == TextInputs \cup OtherInputs \cup EndInputs

\* Uuid::new_v4().to_string()[..8]: one fresh token per connection.
UserId(s) == "u" \o ToString(s)

\* format!("欢迎! 你的ID是: {}", user_id), as the pieces the string is made of.
WelcomeMsg(id) == <<"Welcome! Your id is: ", id>>

\* BroadcastMsg with the arguments of format! in the wrong order.
BroadcastMsg_Swapped(id, text) == <<"[", text, "]: ", id>>

\* format!("[{}]: {}", user_id_clone, text), as the pieces the string is made of.
BroadcastMsg(id, text) == <<"[", id, "]: ", text>>

\* format!("消息 #{} - 服务器时间: {}", counter, now.format("%H:%M:%S"))
TickMsg(counter, now) == <<"Message #", ToString(counter), " - server time: ", now>>

\* format!("🎉 里程碑消息！已发送 {} 条消息", counter)
SpecialMsg(counter) == <<"Milestone! ", ToString(counter), " messages sent">>

\* ------------------------------------------------- tokio broadcast channel

RECURSIVE Pow2From(_, _)
Pow2From(p, n) == IF p >= n THEN p ELSE Pow2From(2 * p, n)

\* usize::next_power_of_two: the channel rounds the requested capacity up.
NextPowerOfTwo(n) == Pow2From(1, n)

\* Number of slots of the ring buffer created by broadcast::channel(Capacity).
BufLen == NextPowerOfTwo(Capacity)

EmptySlot == [pos |-> -1, val |-> NoMsg]

\* let (tx, _rx) = broadcast::channel(100): main keeps _rx, which never receives.
MainReceivers == 1

VARIABLES
    hs_pc,      \* handle_socket of each connection: idle, welcome, select, closed
    rx_next,    \* rx of each connection: position of the next value to receive
    sub_pos,    \* tail position when the connection called subscribe() (history)
    spawn_pos,  \* tail position when the connection's tasks were spawned (history)
    send_pc,    \* send_task: none, recv, send, done, aborted
    send_msg,   \* the value send_task received and is writing
    recv_pc,    \* recv_task: none, next, text, done, aborted
    recv_text,  \* the Text payload recv_task took off the connection
    send_abort, \* send_task.abort() was called
    recv_abort, \* recv_task.abort() was called
    out,        \* frames written to each connection's sink, in order
    out_pos,    \* channel position of each frame of out (-1: the welcome) (history)
    texts,      \* Text payloads each recv_task has read, in order (history)
    buffer,     \* the channel's ring of slots
    tail,       \* the channel's tail position: number of values sent so far
    rx_cnt,     \* the channel's live receivers (tail.rx_cnt)
    rx_live,    \* whether each connection's rx exists and was not dropped yet
    published,  \* every value ever sent on the channel, in order (history)
    ntexts,     \* inbound Text frames consumed so far
    rw_hs,      \* axum_read_write handle_socket: select, closed
    rw_write,   \* write task: tick, send, special, done
    rw_counter, \* write task: counter
    rw_msg,     \* write task: the message built for this tick
    rw_read,    \* read task: next, done
    rw_seen,    \* read task: kind of the last frame it consumed
    rw_out,     \* frames written to the connection's sink, in order
    rw_ticks,   \* timer ticks delivered so far
    rw_clock    \* index in Times of the wall clock's last reading

fanVars == <<hs_pc, rx_next, sub_pos, spawn_pos, send_pc, send_msg, recv_pc, recv_text,
             send_abort, recv_abort, out, out_pos, texts, buffer, tail, rx_cnt,
             rx_live, published, ntexts>>

rwVars == <<rw_hs, rw_write, rw_counter, rw_msg, rw_read, rw_seen, rw_out, rw_ticks,
            rw_clock>>

vars == <<fanVars, rwVars>>

hubVars == <<buffer, tail, published>>

\* Positions the ring still holds: the last BufLen sent.
Retained == {buffer[i].pos : i \in 0..(BufLen - 1)} \ {-1}

\* ChannelSend that rejects the value when every slot of the ring is in use.
ChannelSend_RejectWhenFull(buf, pos, msg, receivers) ==
    IF receivers = 0 \/ \A i \in DOMAIN buf : buf[i].pos # -1
    THEN [ok |-> FALSE, buf |-> buf, pos |-> pos]
    ELSE [ok |-> TRUE,
          buf |-> [buf EXCEPT ![pos % BufLen] = [pos |-> pos, val |-> msg]],
          pos |-> pos + 1]

\* Sender::send: Err(SendError) when no receiver is alive; otherwise write the
\* slot at tail & mask. The ring is not consulted for room: the slot's previous
\* value is overwritten.
ChannelSend(buf, pos, msg, receivers) ==
    IF receivers = 0
    THEN [ok |-> FALSE, buf |-> buf, pos |-> pos]
    ELSE [ok |-> TRUE,
          buf |-> [buf EXCEPT ![pos % BufLen] = [pos |-> pos, val |-> msg]],
          pos |-> pos + 1]

\* Subscribe with the cursor at the start of the channel instead of its tail.
Subscribe_FromStart(pos) == 0

\* Sender::subscribe: the new receiver's cursor is the current tail.
Subscribe(pos) == pos

\* RecvResult that does not move the cursor past the value it returns.
RecvResult_Repeat(buf, pos, next) ==
    LET slot == buf[next % BufLen] IN
    IF slot.pos = next THEN [res |-> "Ok", val |-> slot.val, next |-> next]
    ELSE IF slot.pos + BufLen = next \/ slot.pos = -1
         THEN [res |-> "Pending", val |-> NoMsg, next |-> next]
         ELSE [res |-> "Lagged", val |-> NoMsg, next |-> pos - BufLen]

\* Receiver::recv on cursor next: the slot at next & mask holds position next
\* (Ok), or the position one lap behind (empty: the future stays pending), or a
\* later one (the receiver lagged: Err(Lagged), cursor moved to the oldest slot).
RecvResult(buf, pos, next) ==
    LET slot == buf[next % BufLen] IN
    IF slot.pos = next THEN [res |-> "Ok", val |-> slot.val, next |-> next + 1]
    ELSE IF slot.pos + BufLen = next \/ slot.pos = -1
         THEN [res |-> "Pending", val |-> NoMsg, next |-> next]
         ELSE [res |-> "Lagged", val |-> NoMsg, next |-> pos - BufLen]

Init ==
    /\ hs_pc = [s \in Sessions |-> "idle"]
    /\ rx_next = [s \in Sessions |-> 0]
    /\ sub_pos = [s \in Sessions |-> -1]
    /\ spawn_pos = [s \in Sessions |-> -1]
    /\ send_pc = [s \in Sessions |-> "none"]
    /\ send_msg = [s \in Sessions |-> NoMsg]
    /\ recv_pc = [s \in Sessions |-> "none"]
    /\ recv_text = [s \in Sessions |-> ""]
    /\ send_abort = [s \in Sessions |-> FALSE]
    /\ recv_abort = [s \in Sessions |-> FALSE]
    /\ out = [s \in Sessions |-> <<>>]
    /\ out_pos = [s \in Sessions |-> <<>>]
    /\ texts = [s \in Sessions |-> <<>>]
    /\ buffer = [i \in 0..(BufLen - 1) |-> EmptySlot]
    /\ tail = 0
    /\ rx_cnt = MainReceivers
    /\ rx_live = [s \in Sessions |-> FALSE]
    /\ published = <<>>
    /\ ntexts = 0
    /\ rw_hs = "select"
    /\ rw_write = "tick"
    /\ rw_counter = 0
    /\ rw_msg = NoMsg
    /\ rw_read = "next"
    /\ rw_seen = "none"
    /\ rw_out = <<>>
    /\ rw_ticks = 0
    /\ rw_clock = 1

\* ------------------------------------------------------ axum.rs handle_socket

\* socket.split(); state.tx.subscribe(); Uuid::new_v4()
Connect(s) ==
    /\ hs_pc[s] = "idle"
    /\ hs_pc' = [hs_pc EXCEPT ![s] = "welcome"]
    /\ rx_next' = [rx_next EXCEPT ![s] = Subscribe(tail)]
    /\ sub_pos' = [sub_pos EXCEPT ![s] = tail]
    /\ rx_cnt' = rx_cnt + 1
    /\ rx_live' = [rx_live EXCEPT ![s] = TRUE]
    /\ UNCHANGED <<send_pc, send_msg, recv_pc, recv_text, send_abort, recv_abort,
                   out, out_pos, texts, hubVars, ntexts, spawn_pos, rwVars>>

\* Welcome in which the receiver's cursor starts at the tail of the moment the
\* tasks are spawned (as if the send task itself subscribed).
Welcome_SubscribeAtSpawn(s) ==
    /\ hs_pc[s] = "welcome"
    /\ \E ok \in BOOLEAN :
         /\ out' = [out EXCEPT ![s] =
                      IF ok THEN Append(@, TextFrame(WelcomeMsg(UserId(s)))) ELSE @]
         /\ out_pos' = [out_pos EXCEPT ![s] = IF ok THEN Append(@, -1) ELSE @]
    /\ hs_pc' = [hs_pc EXCEPT ![s] = "select"]
    /\ send_pc' = [send_pc EXCEPT ![s] = "recv"]
    /\ recv_pc' = [recv_pc EXCEPT ![s] = "next"]
    /\ spawn_pos' = [spawn_pos EXCEPT ![s] = tail]
    /\ rx_next' = [rx_next EXCEPT ![s] = tail]
    /\ UNCHANGED <<sub_pos, send_msg, recv_text, send_abort, recv_abort,
                   texts, hubVars, rx_cnt, rx_live, ntexts, rwVars>>

\* Welcome that writes the welcome frame twice.
Welcome_Twice(s) ==
    /\ hs_pc[s] = "welcome"
    /\ \E ok \in BOOLEAN :
         /\ out' = [out EXCEPT ![s] =
                      IF ok THEN @ \o <<TextFrame(WelcomeMsg(UserId(s))),
                                        TextFrame(WelcomeMsg(UserId(s)))>>
                      ELSE @]
         /\ out_pos' = [out_pos EXCEPT ![s] = IF ok THEN @ \o <<-1, -1>> ELSE @]
    /\ hs_pc' = [hs_pc EXCEPT ![s] = "select"]
    /\ send_pc' = [send_pc EXCEPT ![s] = "recv"]
    /\ recv_pc' = [recv_pc EXCEPT ![s] = "next"]
    /\ spawn_pos' = [spawn_pos EXCEPT ![s] = tail]
    /\ UNCHANGED <<rx_next, sub_pos, send_msg, recv_text, send_abort, recv_abort,
                   texts, hubVars, rx_cnt, rx_live, ntexts, rwVars>>

\* let _ = sender.send(Message::Text(welcome)).await; then both tasks are spawned.
Welcome(s) ==
    /\ hs_pc[s] = "welcome"
    /\ \E ok \in BOOLEAN :
         /\ out' = [out EXCEPT ![s] =
                      IF ok THEN Append(@, TextFrame(WelcomeMsg(UserId(s)))) ELSE @]
         /\ out_pos' = [out_pos EXCEPT ![s] = IF ok THEN Append(@, -1) ELSE @]
    /\ hs_pc' = [hs_pc EXCEPT ![s] = "select"]
    /\ send_pc' = [send_pc EXCEPT ![s] = "recv"]
    /\ recv_pc' = [recv_pc EXCEPT ![s] = "next"]
    /\ spawn_pos' = [spawn_pos EXCEPT ![s] = tail]
    /\ UNCHANGED <<rx_next, sub_pos, send_msg, recv_text, send_abort, recv_abort,
                   texts, hubVars, rx_cnt, rx_live, ntexts, rwVars>>

\* SendTaskRecv that does not relay to a connection the values it sent itself.
SendTaskRecv_SkipOwn(s) ==
    /\ send_pc[s] = "recv"
    /\ LET r == RecvResult(buffer, tail, rx_next[s]) IN
         /\ r.res # "Pending"
         /\ rx_next' = [rx_next EXCEPT ![s] = r.next]
         /\ IF r.res = "Ok"
            THEN /\ IF r.val[2] = UserId(s)
                    THEN UNCHANGED <<send_pc, send_msg>>
                    ELSE /\ send_pc' = [send_pc EXCEPT ![s] = "send"]
                         /\ send_msg' = [send_msg EXCEPT ![s] =
                                            [pos |-> rx_next[s], val |-> r.val]]
                 /\ UNCHANGED <<rx_cnt, rx_live>>
            ELSE /\ send_pc' = [send_pc EXCEPT ![s] = "done"]
                 /\ rx_cnt' = rx_cnt - 1
                 /\ rx_live' = [rx_live EXCEPT ![s] = FALSE]
                 /\ UNCHANGED send_msg
    /\ UNCHANGED <<hs_pc, sub_pos, recv_pc, recv_text, send_abort, recv_abort,
                   out, out_pos, texts, hubVars, ntexts, spawn_pos, rwVars>>

\* send_task: while let Ok(msg) = rx.recv().await; leaving the loop drops rx.
SendTaskRecv(s) ==
    /\ send_pc[s] = "recv"
    /\ LET r == RecvResult(buffer, tail, rx_next[s]) IN
         /\ r.res # "Pending"
         /\ rx_next' = [rx_next EXCEPT ![s] = r.next]
         /\ IF r.res = "Ok"
            THEN /\ send_pc' = [send_pc EXCEPT ![s] = "send"]
                 /\ send_msg' = [send_msg EXCEPT ![s] = [pos |-> rx_next[s], val |-> r.val]]
                 /\ UNCHANGED <<rx_cnt, rx_live>>
            ELSE /\ send_pc' = [send_pc EXCEPT ![s] = "done"]
                 /\ rx_cnt' = rx_cnt - 1
                 /\ rx_live' = [rx_live EXCEPT ![s] = FALSE]
                 /\ UNCHANGED send_msg
    /\ UNCHANGED <<hs_pc, sub_pos, recv_pc, recv_text, send_abort, recv_abort,
                   out, out_pos, texts, hubVars, ntexts, spawn_pos, rwVars>>

\* SendTaskWrite that ignores a failed write and goes on to the next value.
SendTaskWrite_IgnoreError(s) ==
    /\ send_pc[s] = "send"
    /\ \E ok \in BOOLEAN :
         IF ok
         THEN /\ out' = [out EXCEPT ![s] = Append(@, TextFrame(send_msg[s].val))]
              /\ out_pos' = [out_pos EXCEPT ![s] = Append(@, send_msg[s].pos)]
         ELSE UNCHANGED <<out, out_pos>>
    /\ send_pc' = [send_pc EXCEPT ![s] = "recv"]
    /\ send_msg' = [send_msg EXCEPT ![s] = NoMsg]
    /\ UNCHANGED <<hs_pc, rx_next, sub_pos, recv_pc, recv_text, send_abort,
                   recv_abort, texts, hubVars, rx_cnt, rx_live, ntexts, spawn_pos,
                   rwVars>>

\* send_task: if sender.send(Message::Text(msg)).await.is_err() { break; }
SendTaskWrite(s) ==
    /\ send_pc[s] = "send"
    /\ \E ok \in BOOLEAN :
         IF ok
         THEN /\ out' = [out EXCEPT ![s] = Append(@, TextFrame(send_msg[s].val))]
              /\ out_pos' = [out_pos EXCEPT ![s] = Append(@, send_msg[s].pos)]
              /\ send_pc' = [send_pc EXCEPT ![s] = "recv"]
              /\ UNCHANGED <<rx_cnt, rx_live>>
         ELSE /\ send_pc' = [send_pc EXCEPT ![s] = "done"]
              /\ rx_cnt' = rx_cnt - 1
              /\ rx_live' = [rx_live EXCEPT ![s] = FALSE]
              /\ UNCHANGED <<out, out_pos>>
    /\ send_msg' = [send_msg EXCEPT ![s] = NoMsg]
    /\ UNCHANGED <<hs_pc, rx_next, sub_pos, recv_pc, recv_text, send_abort,
                   recv_abort, texts, hubVars, ntexts, spawn_pos, rwVars>>

\* RecvFrame without the Message::Close arm: a Close frame falls to `_ => {}`.
RecvFrame_NoCloseArm(s, f, max) ==
    /\ recv_pc[s] = "next"
    /\ CASE f.kind = "Text" ->
              /\ ntexts < max
              /\ ntexts' = ntexts + 1
              /\ recv_pc' = [recv_pc EXCEPT ![s] = "text"]
              /\ recv_text' = [recv_text EXCEPT ![s] = f.text]
              /\ texts' = [texts EXCEPT ![s] = Append(@, f.text)]
         [] f.kind \in {"Err", "None"} ->
              /\ recv_pc' = [recv_pc EXCEPT ![s] = "done"]
              /\ UNCHANGED <<recv_text, texts, ntexts>>
         [] OTHER ->
              UNCHANGED <<recv_pc, recv_text, texts, ntexts>>
    /\ UNCHANGED <<hs_pc, rx_next, sub_pos, send_pc, send_msg, send_abort,
                   recv_abort, out, out_pos, hubVars, rx_cnt, rx_live, spawn_pos,
                   rwVars>>

\* recv_task: one turn of while let Some(Ok(msg)) = receiver.next().await
\* { match msg ... } on the frame (or read error, or end of stream) f.
\* max bounds the Text frames the peers deliver.
RecvFrame(s, f, max) ==
    /\ recv_pc[s] = "next"
    /\ CASE f.kind = "Text" ->
              /\ ntexts < max
              /\ ntexts' = ntexts + 1
              /\ recv_pc' = [recv_pc EXCEPT ![s] = "text"]
              /\ recv_text' = [recv_text EXCEPT ![s] = f.text]
              /\ texts' = [texts EXCEPT ![s] = Append(@, f.text)]
         [] f.kind \in {"Close", "Err", "None"} ->
              /\ recv_pc' = [recv_pc EXCEPT ![s] = "done"]
              /\ UNCHANGED <<recv_text, texts, ntexts>>
         [] OTHER ->
              UNCHANGED <<recv_pc, recv_text, texts, ntexts>>
    /\ UNCHANGED <<hs_pc, rx_next, sub_pos, send_pc, send_msg, send_abort,
                   recv_abort, out, out_pos, hubVars, rx_cnt, rx_live, spawn_pos, rwVars>>

\* recv_task: receiver.next().await yields whatever the peer delivers next.
RecvTaskNext(s, max) == \E f \in Inputs : RecvFrame(s, f, max)

\* RecvTaskPublish that sends the value on the channel twice.
RecvTaskPublish_Twice(s) ==
    /\ recv_pc[s] = "text"
    /\ LET msg == BroadcastMsg(UserId(s), recv_text[s])
           r1 == ChannelSend(buffer, tail, msg, rx_cnt)
           r2 == ChannelSend(r1.buf, r1.pos, msg, rx_cnt)
       IN
         /\ buffer' = r2.buf
         /\ tail' = r2.pos
         /\ published' = IF r2.ok THEN published \o <<msg, msg>> ELSE published
    /\ recv_pc' = [recv_pc EXCEPT ![s] = "next"]
    /\ recv_text' = [recv_text EXCEPT ![s] = ""]
    /\ UNCHANGED <<hs_pc, rx_next, sub_pos, send_pc, send_msg, send_abort,
                   recv_abort, out, out_pos, texts, rx_cnt, rx_live, ntexts,
                   spawn_pos, rwVars>>

\* recv_task: let _ = tx.send(format!("[{}]: {}", user_id_clone, text));
RecvTaskPublish(s) ==
    /\ recv_pc[s] = "text"
    /\ LET msg == BroadcastMsg(UserId(s), recv_text[s])
           r == ChannelSend(buffer, tail, msg, rx_cnt)
       IN
         /\ buffer' = r.buf
         /\ tail' = r.pos
         /\ published' = IF r.ok THEN Append(published, msg) ELSE published
    /\ recv_pc' = [recv_pc EXCEPT ![s] = "next"]
    /\ recv_text' = [recv_text EXCEPT ![s] = ""]
    /\ UNCHANGED <<hs_pc, rx_next, sub_pos, send_pc, send_msg, send_abort,
                   recv_abort, out, out_pos, texts, rx_cnt, rx_live, ntexts, spawn_pos, rwVars>>

\* select! { _ = (&mut send_task) => recv_task.abort(), ... }; handle_socket returns.
SelectSendDone(s) ==
    /\ hs_pc[s] = "select"
    /\ send_pc[s] = "done"
    /\ recv_abort' = [recv_abort EXCEPT ![s] = TRUE]
    /\ hs_pc' = [hs_pc EXCEPT ![s] = "closed"]
    /\ UNCHANGED <<rx_next, sub_pos, send_pc, send_msg, recv_pc, recv_text,
                   send_abort, out, out_pos, texts, hubVars, rx_cnt, rx_live,
                   ntexts, spawn_pos, rwVars>>

\* SelectRecvDone whose abort reaches the send task of every connection (as with
\* one cancellation flag shared through AppState).
SelectRecvDone_AbortAll(s) ==
    /\ hs_pc[s] = "select"
    /\ recv_pc[s] = "done"
    /\ send_abort' = [x \in Sessions |-> TRUE]
    /\ hs_pc' = [hs_pc EXCEPT ![s] = "closed"]
    /\ UNCHANGED <<rx_next, sub_pos, send_pc, send_msg, recv_pc, recv_text,
                   recv_abort, out, out_pos, texts, hubVars, rx_cnt, rx_live,
                   ntexts, spawn_pos, rwVars>>

\* SelectRecvDone without the abort of the sibling (the JoinHandle is only dropped).
SelectRecvDone_NoAbort(s) ==
    /\ hs_pc[s] = "select"
    /\ recv_pc[s] = "done"
    /\ hs_pc' = [hs_pc EXCEPT ![s] = "closed"]
    /\ UNCHANGED <<rx_next, sub_pos, send_pc, send_msg, recv_pc, recv_text,
                   send_abort, recv_abort, out, out_pos, texts, hubVars, rx_cnt,
                   rx_live, ntexts, spawn_pos, rwVars>>

\* select! { ..., _ = (&mut recv_task) => send_task.abort() }; handle_socket returns.
SelectRecvDone(s) ==
    /\ hs_pc[s] = "select"
    /\ recv_pc[s] = "done"
    /\ send_abort' = [send_abort EXCEPT ![s] = TRUE]
    /\ hs_pc' = [hs_pc EXCEPT ![s] = "closed"]
    /\ UNCHANGED <<rx_next, sub_pos, send_pc, send_msg, recv_pc, recv_text,
                   recv_abort, out, out_pos, texts, hubVars, rx_cnt, rx_live,
                   ntexts, spawn_pos, rwVars>>

\* SendTaskAborted in which the dropped task's rx stays registered with the channel.
SendTaskAborted_LeaksReceiver(s) ==
    /\ send_abort[s]
    /\ send_pc[s] \in {"recv", "send"}
    /\ send_pc' = [send_pc EXCEPT ![s] = "aborted"]
    /\ send_msg' = [send_msg EXCEPT ![s] = NoMsg]
    /\ UNCHANGED <<hs_pc, rx_next, sub_pos, recv_pc, recv_text, send_abort,
                   recv_abort, out, out_pos, texts, hubVars, rx_cnt, rx_live,
                   ntexts, spawn_pos, rwVars>>

\* The runtime drops an aborted send_task at one of its awaits; rx goes with it.
SendTaskAborted(s) ==
    /\ send_abort[s]
    /\ send_pc[s] \in {"recv", "send"}
    /\ send_pc' = [send_pc EXCEPT ![s] = "aborted"]
    /\ send_msg' = [send_msg EXCEPT ![s] = NoMsg]
    /\ rx_cnt' = rx_cnt - 1
    /\ rx_live' = [rx_live EXCEPT ![s] = FALSE]
    /\ UNCHANGED <<hs_pc, rx_next, sub_pos, recv_pc, recv_text, send_abort,
                   recv_abort, out, out_pos, texts, hubVars, ntexts, spawn_pos, rwVars>>

\* RecvTaskAborted in which the runtime drops the task wherever it is, also
\* between taking a Text frame and sending it on the channel.
RecvTaskAborted_AnyPoint(s) ==
    /\ recv_abort[s]
    /\ recv_pc[s] \in {"next", "text"}
    /\ recv_pc' = [recv_pc EXCEPT ![s] = "aborted"]
    /\ UNCHANGED <<hs_pc, rx_next, sub_pos, send_pc, send_msg, recv_text,
                   send_abort, recv_abort, out, out_pos, texts, hubVars, rx_cnt,
                   rx_live, ntexts, spawn_pos, rwVars>>

\* RecvTaskAborted in which abort() also takes a recv_task that already finished.
RecvTaskAborted_EvenIfFinished(s) ==
    /\ recv_abort[s]
    /\ recv_pc[s] \in {"next", "done"}
    /\ recv_pc' = [recv_pc EXCEPT ![s] = "aborted"]
    /\ UNCHANGED <<hs_pc, rx_next, sub_pos, send_pc, send_msg, recv_text,
                   send_abort, recv_abort, out, out_pos, texts, hubVars, rx_cnt,
                   rx_live, ntexts, spawn_pos, rwVars>>

\* The runtime drops an aborted recv_task at its await of receiver.next().
RecvTaskAborted(s) ==
    /\ recv_abort[s]
    /\ recv_pc[s] = "next"
    /\ recv_pc' = [recv_pc EXCEPT ![s] = "aborted"]
    /\ UNCHANGED <<hs_pc, rx_next, sub_pos, send_pc, send_msg, recv_text,
                   send_abort, recv_abort, out, out_pos, texts, hubVars, rx_cnt,
                   rx_live, ntexts, spawn_pos, rwVars>>

\* One step of connection s of the fan-out server.
Step(s, max) ==
    \/ Connect(s)
    \/ Welcome(s)
    \/ SendTaskRecv(s)
    \/ SendTaskWrite(s)
    \/ RecvTaskNext(s, max)
    \/ RecvTaskPublish(s)
    \/ SelectSendDone(s)
    \/ SelectRecvDone(s)
    \/ SendTaskAborted(s)
    \/ RecvTaskAborted(s)

Next == \E s \in Sessions : Step(s, MaxTexts)

\* The fan-out server with every connection of Sessions.
Spec == Init /\ [][Next]_vars

SoloNext == Step(1, MaxSoloTexts)

\* The fan-out server when a single peer connects and sends more traffic.
SoloSpec == Init /\ [][SoloNext]_vars

\* The runtime keeps polling spawned tasks and the connection's handler: a
\* completed JoinHandle resolves the select!, a task that is running goes on to
\* its next await, and an aborted task is dropped once it is at an await.
FairSpec ==
    /\ Spec
    /\ \A s \in Sessions :
         /\ WF_vars(SelectSendDone(s))
         /\ WF_vars(SelectRecvDone(s))
         /\ WF_vars(RecvTaskPublish(s))
         /\ WF_vars(SendTaskAborted(s))
         /\ WF_vars(RecvTaskAborted(s))

\* ------------------------------------------- axum_read_write.rs (self-driven)

\* write: interval.tick().await; counter += 1; let message = format!(...)
WriteTick ==
    /\ rw_write = "tick"
    /\ rw_ticks < MaxTicks
    /\ rw_ticks' = rw_ticks + 1
    /\ rw_counter' = rw_counter + 1
    /\ \E now \in rw_clock..Len(Times) :
         /\ rw_clock' = now
         /\ rw_msg' = TickMsg(rw_counter + 1, Times[now])
    /\ rw_write' = "send"
    /\ UNCHANGED <<rw_hs, rw_read, rw_seen, rw_out, fanVars>>

\* WriteSend with the milestone test made on the count of the frames before
\* this one (as if counter were incremented after the send).
WriteSend_TestBeforeIncrement ==
    /\ rw_write = "send"
    /\ \E ok \in BOOLEAN :
         IF ok
         THEN /\ rw_out' = Append(rw_out, TextFrame(rw_msg))
              /\ IF (rw_counter - 1) % MilestonePeriod = 0
                 THEN /\ rw_write' = "special"
                      /\ rw_msg' = SpecialMsg(rw_counter)
                 ELSE /\ rw_write' = "tick"
                      /\ rw_msg' = NoMsg
         ELSE /\ rw_write' = "done"
              /\ rw_msg' = NoMsg
              /\ UNCHANGED rw_out
    /\ UNCHANGED <<rw_hs, rw_counter, rw_read, rw_seen, rw_ticks, rw_clock, fanVars>>

\* write: if let Err(e) = sender.send(Message::Text(message)).await { break; }
\*        if counter % 10 == 0 { let special = format!(...)
WriteSend ==
    /\ rw_write = "send"
    /\ \E ok \in BOOLEAN :
         IF ok
         THEN /\ rw_out' = Append(rw_out, TextFrame(rw_msg))
              /\ IF rw_counter % MilestonePeriod = 0
                 THEN /\ rw_write' = "special"
                      /\ rw_msg' = SpecialMsg(rw_counter)
                 ELSE /\ rw_write' = "tick"
                      /\ rw_msg' = NoMsg
         ELSE /\ rw_write' = "done"
              /\ rw_msg' = NoMsg
              /\ UNCHANGED rw_out
    /\ UNCHANGED <<rw_hs, rw_counter, rw_read, rw_seen, rw_ticks, rw_clock, fanVars>>

\* write: if let Err(e) = sender.send(Message::Text(special)).await { break; }
WriteSpecial ==
    /\ rw_write = "special"
    /\ \E ok \in BOOLEAN :
         IF ok
         THEN /\ rw_out' = Append(rw_out, TextFrame(rw_msg))
              /\ rw_write' = "tick"
         ELSE /\ rw_write' = "done"
              /\ UNCHANGED rw_out
    /\ rw_msg' = NoMsg
    /\ UNCHANGED <<rw_hs, rw_counter, rw_read, rw_seen, rw_ticks, rw_clock, fanVars>>

\* ReadFrame that echoes a Text frame back to the peer.
ReadFrame_EchoText(f) ==
    /\ rw_read = "next"
    /\ rw_seen' = f.kind
    /\ rw_read' = IF f.kind \in {"Close", "Err", "None"} THEN "done" ELSE "next"
    /\ rw_out' = IF f.kind = "Text" THEN Append(rw_out, TextFrame(<<f.text>>)) ELSE rw_out
    /\ UNCHANGED <<rw_hs, rw_write, rw_counter, rw_msg, rw_ticks, rw_clock, fanVars>>

\* read: one turn of while let Some(msg_result) = receiver.next().await
\* { match msg_result ... } on the frame (or read error, or end of stream) f.
ReadFrame(f) ==
    /\ rw_read = "next"
    /\ rw_seen' = f.kind
    /\ rw_read' = IF f.kind \in {"Close", "Err", "None"} THEN "done" ELSE "next"
    /\ UNCHANGED <<rw_hs, rw_write, rw_counter, rw_msg, rw_out, rw_ticks, rw_clock,
                   fanVars>>

\* read: receiver.next().await yields whatever the peer delivers next.
ReadNext == \E f \in Inputs : ReadFrame(f)

\* handle_socket: select! { _ = write_task => println!(...), ... }; it returns,
\* dropping the JoinHandle of read_task, which detaches the task.
RwSelectWrite ==
    /\ rw_hs = "select"
    /\ rw_write = "done"
    /\ rw_hs' = "closed"
    /\ UNCHANGED <<rw_write, rw_counter, rw_msg, rw_read, rw_seen, rw_out,
                   rw_ticks, rw_clock, fanVars>>

\* handle_socket: select! { ..., _ = read_task => println!(...) }; it returns,
\* dropping the JoinHandle of write_task, which detaches the task.
RwSelectRead ==
    /\ rw_hs = "select"
    /\ rw_read = "done"
    /\ rw_hs' = "closed"
    /\ UNCHANGED <<rw_write, rw_counter, rw_msg, rw_read, rw_seen, rw_out,
                   rw_ticks, rw_clock, fanVars>>

RwNext ==
    \/ WriteTick
    \/ WriteSend
    \/ WriteSpecial
    \/ ReadNext
    \/ RwSelectWrite
    \/ RwSelectRead

\* One connection of the self-driven server.
RwSpec == Init /\ [][RwNext]_vars

\* No connection of the fan-out server was accepted yet.
FanUntouched == \A s \in Sessions : hs_pc[s] = "idle"

\* The self-driven server's connection took no step yet.
RwUntouched ==
    /\ rw_hs = "select"
    /\ rw_write = "tick"
    /\ rw_read = "next"
    /\ rw_ticks = 0
    /\ rw_seen = "none"

\* The two examples are separate binaries: a run is a run of one of them.
EitherNext ==
    \/ RwUntouched /\ SoloNext
    \/ FanUntouched /\ RwNext

\* A run of either server: one fan-out connection, or one self-driven one.
EitherSpec == Init /\ [][EitherNext]_vars

\* ------------------------------------------------------------------ claims

\* A task that returned or was dropped by the runtime.
Stopped == {"done", "aborted"}

\* C1: in fan-out mode, when handle_socket has returned it has called abort() on
\* the sibling of the task that finished, and once either task of a connection
\* has finished the connection eventually is closed with both tasks stopped and
\* its channel receiver dropped.
C1_PairedCancellation ==
    /\ [](\A s \in Sessions :
            hs_pc[s] = "closed" =>
                \/ send_pc[s] = "done" /\ recv_abort[s]
                \/ recv_pc[s] = "done" /\ send_abort[s])
    /\ \A s \in Sessions :
         (send_pc[s] = "done" \/ recv_pc[s] = "done") ~>
             /\ hs_pc[s] = "closed"
             /\ send_pc[s] \in Stopped
             /\ recv_pc[s] \in Stopped
             /\ ~rx_live[s]

\* A connection closed after its reader finished first: the send task was
\* dropped by the abort and its receiver released.
C1_Witness ==
    \E s \in Sessions :
        /\ hs_pc[s] = "closed"
        /\ recv_pc[s] = "done"
        /\ send_pc[s] = "aborted"
        /\ ~rx_live[s]

\* C2: in self-driven mode, when handle_socket has returned (the session is
\* reported closed) neither the write task nor the read task is still running.
C2_NoTaskOutlivesSession ==
    rw_hs = "closed" => rw_write = "done" /\ rw_read = "done"

\* The positions of the ring's oldest and newest retained values.
OldestRetained == CHOOSE p \in Retained : \A q \in Retained : p <= q

\* C3: when more values than the capacity were sent since a send task last
\* received, its next rx.recv() yields the oldest retained value and the task
\* goes on to write it: the lag does not end the loop.
C3_LagIsTransparentSkip ==
    [][\A s \in Sessions :
          (/\ send_pc[s] = "recv"
           /\ tail - rx_next[s] > Capacity
           /\ send_pc'[s] \notin {"recv", "aborted"})
          => /\ send_pc'[s] = "send"
             /\ send_msg'[s].pos = OldestRetained
             /\ send_msg'[s].pos >= rx_next[s]]_vars

\* C9: a connection whose handle_socket has returned has no task that can still
\* read a frame, publish or write: both tasks have stopped.
C9_ClosedOnlyWhenStopped ==
    \A s \in Sessions :
        hs_pc[s] = "closed" => send_pc[s] \in Stopped /\ recv_pc[s] \in Stopped

\* The relayed channel values written to connection s (its frames but the
\* welcome), and how many there are.
RelayIdx(s) == {i \in DOMAIN out[s] : out_pos[s][i] >= 0}

NRelayed(s) == Cardinality(RelayIdx(s))

RelayBodies(s) ==
    LET skip == Len(out[s]) - NRelayed(s) IN
    [i \in 1..NRelayed(s) |-> out[s][i + skip].body]

\* The values of a sequence of channel values that connection a formatted.
From(a, msgs) == SelectSeq(msgs, LAMBDA m : m[2] = UserId(a))

\* The Text payloads of connection a that its recv_task has sent on the channel.
SentTexts(a) ==
    IF recv_pc[a] = "text" THEN SubSeq(texts[a], 1, Len(texts[a]) - 1) ELSE texts[a]

\* The channel values sent after connection b subscribed, up to the last one
\* its send task has written.
SeenBy(b) == SubSeq(published, sub_pos[b] + 1, sub_pos[b] + NRelayed(b))

\* C4: what connection a sent on the channel is, in order, "[<a's id>]: s" for
\* each Text payload s its reader took; every other connection b has written,
\* as Text frames and in a's order, exactly a's values among those sent since b
\* subscribed, up to where b's send task got; and a send task that waits on the
\* drained channel has written every value sent since it subscribed.
C4_FanOutDelivery ==
    \A a \in Sessions :
        /\ From(a, published) =
              [i \in 1..Len(SentTexts(a)) |-> BroadcastMsg(UserId(a), SentTexts(a)[i])]
        /\ \A b \in Sessions \ {a} :
              /\ \A i \in DOMAIN out[b] : out[b][i].type = "Text"
              /\ From(a, RelayBodies(b)) = From(a, SeenBy(b))
              /\ (send_pc[b] = "recv" /\ rx_next[b] = tail)
                    => sub_pos[b] + NRelayed(b) = tail

\* Two different Text payloads of one connection were written to another, in
\* the order they were read.
C4_Witness ==
    \E a \in Sessions : \E b \in Sessions \ {a} :
        /\ texts[a] = <<"hello", "bye">>
        /\ From(a, RelayBodies(b)) =
              <<BroadcastMsg(UserId(a), "hello"), BroadcastMsg(UserId(a), "bye")>>

\* C5: every channel value a send task holds or has written to its connection
\* was sent at or after the tail position at which the connection subscribed,
\* i.e. not before its subscription was created.
C5_NoHistory ==
    \A s \in Sessions :
        /\ \A i \in RelayIdx(s) :
              /\ out_pos[s][i] >= sub_pos[s]
              /\ out[s][i].body = published[out_pos[s][i] + 1]
        /\ send_msg[s] # NoMsg =>
              /\ send_msg[s].pos >= sub_pos[s]
              /\ send_msg[s].val = published[send_msg[s].pos + 1]

\* A connection that subscribed after a value had been sent has written a
\* later value.
C5_Witness ==
    \E s \in Sessions :
        /\ sub_pos[s] > 0
        /\ RelayIdx(s) # {}

\* The values the ring retains, oldest first.
RetainedMsgs ==
    [i \in 1..Cardinality(Retained) |-> buffer[(OldestRetained + i - 1) % BufLen].val]

\* The least power of two that is at least n.
RoundedUp(n) ==
    CHOOSE p \in n..(2 * n) :
        /\ \E k \in 0..n : p = 2 ^ k
        /\ \A q \in n..(p - 1) : \A k \in 0..n : q # 2 ^ k

\* C6 as claimed: tx.send is always possible and never fails, and the channel
\* retains at most the capacity it was created with.
C6_RetainsAtMostCapacity ==
    /\ rx_cnt >= 1
    /\ \A s \in Sessions : recv_pc[s] = "text" => ENABLED RecvTaskPublish(s)
    /\ Cardinality(Retained) <= Capacity

\* C6, amended: tx.send is always possible and never fails (a receiver is
\* always alive), the channel retains at most the capacity rounded up to a
\* power of two, and every send adds its value as the newest retained one,
\* evicting the oldest retained value when, and only when, the ring is full.
C6_PublishNeverFails ==
    /\ [](/\ rx_cnt >= 1
          /\ Cardinality(Retained) <= RoundedUp(Capacity)
          /\ \A s \in Sessions : recv_pc[s] = "text" => ENABLED RecvTaskPublish(s))
    /\ [][\A s \in Sessions :
            (recv_pc[s] = "text" /\ recv_pc'[s] = "next") =>
                /\ tail' = tail + 1
                /\ published' = Append(published, BroadcastMsg(UserId(s), recv_text[s]))
                /\ RetainedMsgs' =
                      Append(IF Cardinality(Retained) = RoundedUp(Capacity)
                             THEN Tail(RetainedMsgs) ELSE RetainedMsgs,
                             BroadcastMsg(UserId(s), recv_text[s]))]_vars

\* A value was sent on the full ring: an older value is gone, the ring holds
\* more values than the capacity asked for.
C6_Witness ==
    /\ Len(published) > Cardinality(Retained)
    /\ Cardinality(Retained) > Capacity

\* Frame f is the regular frame of tick k; frame f is the milestone frame of k.
IsTick(f, k) == \E n \in DOMAIN Times : f = TextFrame(TickMsg(k, Times[n]))

IsSpecial(f, k) == f = TextFrame(SpecialMsg(k))

\* The number of regular frames among the first i frames written.
TicksUpTo(i) == Cardinality({j \in 1..i : rw_out[j].body[1] = "Message #"})

\* C7: the counter is the number of ticks taken; the k-th regular frame written
\* carries counter k; a milestone frame comes only right after the regular
\* frame of a multiple of 10 and carries that count; and the regular frame of a
\* multiple of 10 is followed by its milestone, not by the next regular frame
\* (when it is the last frame, the milestone is being written or its write
\* failed).
C7_WriterFrameSequence ==
    /\ rw_counter = rw_ticks
    /\ TicksUpTo(Len(rw_out)) \in {rw_counter, rw_counter - 1}
    /\ rw_write = "tick" => TicksUpTo(Len(rw_out)) = rw_counter
    /\ \A i \in DOMAIN rw_out :
         LET k == TicksUpTo(i) IN
         /\ IsTick(rw_out[i], k) \/ IsSpecial(rw_out[i], k)
         /\ IsSpecial(rw_out[i], k) =>
               k % MilestonePeriod = 0 /\ i > 1 /\ IsTick(rw_out[i - 1], k)
         /\ (IsTick(rw_out[i], k) /\ k % MilestonePeriod = 0) =>
               IF i < Len(rw_out)
               THEN IsSpecial(rw_out[i + 1], k)
               ELSE rw_write \in {"special", "done"}
         /\ (IsTick(rw_out[i], k) /\ k % MilestonePeriod # 0 /\ i < Len(rw_out)) =>
               IsTick(rw_out[i + 1], k + 1)

\* Twenty regular frames with the milestones of 10 and 20, then regular frame 21.
C7_Witness ==
    /\ Len(rw_out) = 23
    /\ IsTick(rw_out[10], 10)
    /\ IsSpecial(rw_out[11], 10)
    /\ IsTick(rw_out[12], 11)
    /\ IsTick(rw_out[21], 20)
    /\ IsSpecial(rw_out[22], 20)
    /\ IsTick(rw_out[23], 21)

\* Everything connection s owns: its handler, both tasks, its receiver, its sink.
SessionState(s) ==
    <<hs_pc[s], send_pc[s], send_msg[s], send_abort[s], recv_pc[s], recv_text[s],
      recv_abort[s], rx_next[s], rx_live[s], sub_pos[s], out[s], out_pos[s],
      texts[s]>>

\* Both tasks of connection s run and its handler waits in the select!.
Active(s) ==
    /\ hs_pc[s] = "select"
    /\ send_pc[s] \in {"recv", "send"}
    /\ recv_pc[s] \in {"next", "text"}

\* C8: a step in which a task of one connection stops (it returns after a close,
\* a read error, a write failure or a lag, or it is dropped after an abort) or
\* in which its handle_socket returns changes nothing any other connection
\* owns and nothing of the channel's ring; and whatever the other connections
\* do, a send task waiting with values it has not received can receive.
C8_SessionIsolation ==
    /\ [](\A b \in Sessions :
            (send_pc[b] = "recv" /\ rx_next[b] < tail) => ENABLED SendTaskRecv(b))
    /\ [][\A a \in Sessions :
            (\/ send_pc[a] \notin Stopped /\ send_pc'[a] \in Stopped
             \/ recv_pc[a] \notin Stopped /\ recv_pc'[a] \in Stopped
             \/ hs_pc[a] # "closed" /\ hs_pc'[a] = "closed")
            => /\ \A b \in Sessions \ {a} : SessionState(b)' = SessionState(b)
               /\ UNCHANGED hubVars]_vars

\* One connection is closed with both of its tasks stopped while another is
\* active and has written a value relayed from the channel.
C8_Witness ==
    \E a \in Sessions : \E b \in Sessions \ {a} :
        /\ hs_pc[a] = "closed"
        /\ send_pc[a] \in Stopped
        /\ recv_pc[a] \in Stopped
        /\ Active(b)
        /\ RelayIdx(b) # {}

\* C10: what a connection has written of its own values is, in order and each
\* once, what it sent on the channel up to where its send task got; once the
\* send task waits on the drained channel that is "[<its id>]: s" for every
\* Text payload s sent by its reader.
C10_SelfEcho ==
    \A a \in Sessions :
        /\ From(a, RelayBodies(a)) = From(a, SeenBy(a))
        /\ (send_pc[a] = "recv" /\ rx_next[a] = tail) =>
              From(a, RelayBodies(a)) =
                  [i \in 1..Len(SentTexts(a)) |->
                      BroadcastMsg(UserId(a), SentTexts(a)[i])]

\* A connection whose peer sent "hello" has written "[<its id>]: hello" once.
C10_Witness ==
    \E a \in Sessions :
        /\ texts[a] = <<"hello">>
        /\ From(a, RelayBodies(a)) = <<BroadcastMsg(UserId(a), "hello")>>
        /\ send_pc[a] = "recv"

\* C11: a writer goes on to its next value or tick only from a write that put
\* its frame on the connection; a write that fails ends the loop, and a writer
\* that stopped writes nothing more. In the self-driven server a regular frame
\* that fails is not followed by the milestone write, and the write task ends
\* in no other way than a failed write.
C11_WriterStopsAtFailedWrite ==
    [][/\ \A s \in Sessions :
            /\ (send_pc[s] = "send" /\ send_pc'[s] = "recv") =>
                  out'[s] = Append(out[s], TextFrame(send_msg[s].val))
            /\ (send_pc[s] = "send" /\ send_pc'[s] \notin {"send", "recv"}) =>
                  out'[s] = out[s]
            /\ send_pc[s] \in Stopped =>
                  (send_pc'[s] = send_pc[s] /\ out'[s] = out[s])
       /\ (rw_write = "send" /\ rw_write' \in {"special", "tick"}) =>
              rw_out' = Append(rw_out, TextFrame(rw_msg))
       /\ (rw_write = "special" /\ rw_write' = "tick") =>
              rw_out' = Append(rw_out, TextFrame(rw_msg))
       /\ (rw_write # "done" /\ rw_write' = "done") =>
              (rw_write \in {"send", "special"} /\ rw_out' = rw_out)
       /\ rw_write = "done" => (rw_write' = "done" /\ rw_out' = rw_out)]_vars

\* The write of the tenth regular frame failed: the write task is done with nine
\* frames on the connection and no milestone.
C11_Witness ==
    /\ rw_write = "done"
    /\ rw_counter = MilestonePeriod
    /\ Len(rw_out) = MilestonePeriod - 1

\* C12: a reader waiting for its next frame ends on a Close frame, on a read
\* error and on the end of the stream, and on nothing else: a Text, Binary,
\* Ping or Pong frame never ends it; a reader that ended takes no further frame
\* and publishes nothing.
C12_ReaderTermination ==
    /\ \A s \in Sessions : \A f \in Inputs :
         /\ (recv_pc[s] = "next" /\ f \in EndInputs \cup OtherInputs) =>
               ENABLED RecvFrame(s, f, MaxSoloTexts)
         /\ f \in EndInputs =>
               ~ENABLED (RecvFrame(s, f, MaxSoloTexts) /\ recv_pc'[s] # "done")
         /\ f \notin EndInputs =>
               ~ENABLED (RecvFrame(s, f, MaxSoloTexts) /\ recv_pc'[s] \in Stopped)
         /\ recv_pc[s] \in Stopped =>
               (~ENABLED RecvFrame(s, f, MaxSoloTexts) /\ ~ENABLED RecvTaskPublish(s))
    /\ \A f \in Inputs :
         /\ rw_read = "next" => ENABLED ReadFrame(f)
         /\ f \in EndInputs => ~ENABLED (ReadFrame(f) /\ rw_read' # "done")
         /\ f \notin EndInputs => ~ENABLED (ReadFrame(f) /\ rw_read' = "done")
         /\ rw_read = "done" => ~ENABLED ReadFrame(f)
    /\ rw_read = "done" <=> rw_seen \in {"Close", "Err", "None"}

\* The self-driven reader ended on a Close frame while the write task went on.
C12_Witness ==
    /\ rw_read = "done"
    /\ rw_seen = "Close"
    /\ rw_out # <<>>

\* C13: the channel holds one value per Text frame a reader took and went on
\* from, "[<its id>]: <payload>", in the order the frames were read; a step
\* changes the channel only by a reader sending the payload it holds, once; and
\* a Binary, Ping, Pong or Close frame (a read error, the end of the stream)
\* neither changes the channel nor leaves the reader with a value to send.
C13_PublishOncePerText ==
    /\ [](/\ Len(published) = ntexts - Cardinality({s \in Sessions : recv_pc[s] = "text"})
          /\ \A a \in Sessions :
               /\ From(a, published) =
                     [i \in 1..(Len(texts[a]) - (IF recv_pc[a] = "text" THEN 1 ELSE 0)) |->
                         BroadcastMsg(UserId(a), texts[a][i])]
               /\ \A f \in Inputs \ TextInputs :
                     ~ENABLED (/\ RecvFrame(a, f, MaxSoloTexts)
                               /\ (hubVars' # hubVars \/ recv_pc'[a] = "text")))
    /\ [][/\ hubVars' # hubVars =>
               \E s \in Sessions :
                   /\ recv_pc[s] = "text"
                   /\ recv_pc'[s] = "next"
                   /\ recv_text[s] = texts[s][Len(texts[s])]
                   /\ published' = Append(published, BroadcastMsg(UserId(s), recv_text[s]))
                   /\ tail' = tail + 1
          /\ \A s \in Sessions :
                texts'[s] # texts[s] =>
                    (recv_pc'[s] = "text" /\ UNCHANGED hubVars)]_vars

\* The reader took the Text frames "hello" and "bye", and the channel holds the
\* two values made of them.
C13_Witness ==
    /\ texts[1] = <<"hello", "bye">>
    /\ recv_pc[1] = "next"
    /\ published = <<BroadcastMsg(UserId(1), "hello"), BroadcastMsg(UserId(1), "bye")>>

C15_AbortOfFinishedTask ==
    /\ [](\A s \in Sessions :
            (hs_pc[s] = "select" /\ send_pc[s] = "done" /\ recv_pc[s] = "done") =>
                (ENABLED SelectSendDone(s) /\ ENABLED SelectRecvDone(s)))
    /\ [][\A s \in Sessions :
            /\ send_pc[s] = "done" => send_pc'[s] = "done"
            /\ recv_pc[s] = "done" => recv_pc'[s] = "done"
            /\ (hs_pc[s] = "select" /\ hs_pc'[s] = "closed") =>
                  /\ send_pc'[s] = send_pc[s]
                  /\ recv_pc'[s] = recv_pc[s]
                  /\ rx_cnt' = rx_cnt]_vars
    /\ \A s \in Sessions :
          (hs_pc[s] = "select" /\ send_pc[s] = "done" /\ recv_pc[s] = "done")
              ~> (hs_pc[s] = "closed" /\ send_pc[s] = "done" /\ recv_pc[s] = "done")

\* A connection is closed with both of its tasks finished by themselves: the
\* abort() called in the select! branch dropped neither.
C15_Witness ==
    \E s \in Sessions :
        /\ hs_pc[s] = "closed"
        /\ send_pc[s] = "done"
        /\ recv_pc[s] = "done"
        /\ send_abort[s] # recv_abort[s]

\* The welcome frame of connection s.
IsWelcome(f, s) == f = TextFrame(WelcomeMsg(UserId(s)))

\* C16 as stated: every connection whose handler went past its welcome has
\* exactly one welcome frame on its sink, and it is the first frame there.
C16_ExactlyOneWelcomeFirst ==
    \A s \in Sessions :
        hs_pc[s] \in {"select", "closed"} =>
            /\ out[s] # <<>>
            /\ \A i \in DOMAIN out[s] : IsWelcome(out[s][i], s) <=> i = 1

\* C16: a connection's sink holds at most one welcome frame, as its first
\* frame, and every other frame is a value relayed from the channel; nothing is
\* on the sink before handle_socket has made its welcome write; that write,
\* whose result is ignored, either puts the welcome frame with the connection's
\* id first on the sink or leaves the sink empty, and it can always succeed.
C16_AtMostOneWelcomeFirst ==
    /\ [](\A s \in Sessions :
            /\ \A i \in DOMAIN out[s] :
                  /\ IsWelcome(out[s][i], s) => i = 1
                  /\ IsWelcome(out[s][i], s) <=> out_pos[s][i] = -1
                  /\ ~IsWelcome(out[s][i], s) =>
                        out[s][i] = TextFrame(published[out_pos[s][i] + 1])
            /\ hs_pc[s] \in {"idle", "welcome"} => out[s] = <<>>
            /\ hs_pc[s] = "welcome" =>
                  ENABLED (Welcome(s) /\ out'[s] = <<TextFrame(WelcomeMsg(UserId(s)))>>))
    /\ [][\A s \in Sessions :
            (hs_pc[s] = "welcome" /\ hs_pc'[s] # "welcome") =>
                /\ out'[s] \in {<<>>, <<TextFrame(WelcomeMsg(UserId(s)))>>}
                /\ send_pc[s] = "none"]_vars

\* A connection wrote its welcome frame and then a value relayed from the channel.
C16_Witness ==
    \E s \in Sessions :
        /\ Len(out[s]) >= 2
        /\ IsWelcome(out[s][1], s)
        /\ out_pos[s][2] >= 0

\* C17: a reader that stopped (finished or dropped after an abort) has sent on
\* the channel every Text payload it took off its connection; a reader holding
\* a payload cannot be dropped, abort requested or not: its only step is the
\* send, which puts the payload on the channel.
C17_NoConsumedFrameLost ==
    \A s \in Sessions :
        /\ recv_pc[s] \in Stopped =>
              From(s, published) =
                  [i \in 1..Len(texts[s]) |-> BroadcastMsg(UserId(s), texts[s][i])]
        /\ recv_pc[s] = "text" =>
              /\ ~ENABLED RecvTaskAborted(s)
              /\ ENABLED RecvTaskPublish(s)
              /\ ~ENABLED (RecvTaskPublish(s) /\ published' = published)

\* abort() was called on a reader that had taken Text frames, the reader was
\* dropped, and all of its payloads are on the channel.
C17_Witness ==
    \E s \in Sessions :
        /\ recv_pc[s] = "aborted"
        /\ Len(texts[s]) = MaxTexts
        /\ Len(From(s, published)) = MaxTexts

\* C18: the values a connection has written from the channel, and the one its
\* send task holds, are values of the channel at strictly increasing positions
\* of its single sequence of sends (a subsequence of it, nothing twice); hence
\* two values that two connections both wrote were written in the same order
\* by both.
C18_TotalOrder ==
    /\ \A s \in Sessions :
         /\ \A i \in RelayIdx(s) :
               /\ out_pos[s][i] < tail
               /\ out[s][i] = TextFrame(published[out_pos[s][i] + 1])
               /\ \A j \in RelayIdx(s) : i < j => out_pos[s][i] < out_pos[s][j]
               /\ send_msg[s] # NoMsg => out_pos[s][i] < send_msg[s].pos
         /\ send_msg[s] # NoMsg =>
               (send_msg[s].pos < tail /\ send_msg[s].val = published[send_msg[s].pos + 1])
    /\ \A a \in Sessions : \A b \in Sessions \ {a} :
         \A i \in RelayIdx(a) : \A j \in RelayIdx(a) :
            \A k \in RelayIdx(b) : \A l \in RelayIdx(b) :
               (out_pos[a][i] = out_pos[b][k] /\ out_pos[a][j] = out_pos[b][l] /\ i < j)
                   => k < l

\* Two connections sent one value each, and both wrote the two values.
C18_Witness ==
    /\ Len(published) = 2
    /\ published[1][2] # published[2][2]
    /\ \A s \in Sessions :
          {out_pos[s][i] : i \in RelayIdx(s)} = {0, 1}

\* The channel positions of the values connection s has written, in the order
\* it wrote them.
RelayPositions(s) == SelectSeq(out_pos[s], LAMBDA p : p >= 0)

\* C19: while handle_socket makes its welcome write the connection's receiver
\* stays where subscribe() put it, and the write, failed or not, leaves it
\* there; so the values a connection writes are those sent since it
\* subscribed, one after the other from the first, after the welcome frame if
\* there is one; and a send task waiting with fewer than Capacity values
\* unread receives the oldest of them.
C19_NothingLostDuringWelcome ==
    /\ [](\A s \in Sessions :
            /\ hs_pc[s] = "welcome" => (rx_live[s] /\ rx_next[s] = sub_pos[s])
            /\ RelayPositions(s) =
                  [i \in 1..NRelayed(s) |-> sub_pos[s] + i - 1]
            /\ \A i \in DOMAIN out_pos[s] : out_pos[s][i] = -1 => i = 1
            /\ (send_pc[s] = "recv" /\ rx_next[s] < tail /\ tail - rx_next[s] < Capacity) =>
                  ENABLED (/\ SendTaskRecv(s)
                           /\ send_msg'[s] = [pos |-> rx_next[s],
                                              val |-> published[rx_next[s] + 1]]))
    /\ [][\A s \in Sessions :
            (hs_pc[s] = "welcome" /\ hs_pc'[s] # "welcome") =>
                (rx_next'[s] = sub_pos[s] /\ rx_live'[s])]_vars

\* Values were sent on the channel between a connection's subscribe() and the
\* spawn of its tasks, and the connection wrote all of them after its welcome.
C19_Witness ==
    \E s \in Sessions :
        /\ sub_pos[s] < spawn_pos[s]
        /\ out[s] # <<>>
        /\ IsWelcome(out[s][1], s)
        /\ RelayPositions(s) # <<>>
        /\ sub_pos[s] + NRelayed(s) >= spawn_pos[s]

\* The connections that subscribed and whose send task has not stopped.
Subscribed == {s \in Sessions : hs_pc[s] # "idle" /\ send_pc[s] \notin Stopped}

\* C20: the channel's receiver count is 1, for the receiver main keeps, plus
\* the number of connections that subscribed and whose send task has not
\* stopped, and these are the connections whose rx exists; the count is never
\* 0, so no send on the channel fails; a subscribe() raises it by one and the
\* stop of a send task lowers it by one, nothing else changes it.
C20_ReceiverCount ==
    /\ [](/\ rx_cnt = 1 + Cardinality(Subscribed)
          /\ rx_cnt >= 1
          /\ \A s \in Sessions :
               /\ rx_live[s] <=> s \in Subscribed
               /\ ~ENABLED (RecvTaskPublish(s) /\ tail' = tail))
    /\ [][\A s \in Sessions :
            /\ (hs_pc[s] = "idle" /\ hs_pc'[s] # "idle") => rx_cnt' = rx_cnt + 1
            /\ (send_pc[s] \notin Stopped /\ send_pc'[s] \in Stopped) =>
                  rx_cnt' = rx_cnt - 1
            /\ rx_cnt' # rx_cnt =>
                  \E t \in Sessions :
                     \/ hs_pc[t] = "idle" /\ hs_pc'[t] # "idle"
                     \/ send_pc[t] \notin Stopped /\ send_pc'[t] \in Stopped]_vars

\* Every connection came and closed after values were sent on the channel, one
\* of them with its send task dropped by an abort, and the receiver count is
\* back to main's receiver alone.
C20_Witness ==
    /\ \A s \in Sessions : hs_pc[s] = "closed" /\ send_pc[s] \in Stopped
    /\ \E s \in Sessions : send_pc[s] = "aborted"
    /\ published # <<>>
    /\ rx_cnt = 1

====
